---------------------------- MODULE Spec2Model ----------------------------
(***************************************************************************)
(* Model of the Shuttle VFD LEDs driver (src/shuttle_leds.c).              *)
(*                                                                         *)
(* One device instance (struct shuttle_vfd) is shared by the callers of    *)
(* the 15 binary icon endpoints, the volume endpoint and the text          *)
(* attribute.  Every C statement that touches the shared structure         *)
(* (icons_mask, packet, screen, vfd_mutex) is one step of the calling      *)
(* thread, so that the interleavings the code allows are the behaviours    *)
(* of the model.  Bytes are numbers 0..255; C index k of packet/screen is  *)
(* index k+1 here.                                                         *)
(***************************************************************************)
EXTENDS Integers, Sequences, FiniteSets

(***************************************************************************)
(* Program constants                                                       *)
(***************************************************************************)
SHUTTLE_VFD_WIDTH == 20
SHUTTLE_VFD_PACKET_SIZE == 8
SHUTTLE_VFD_DATA_SIZE == SHUTTLE_VFD_PACKET_SIZE - 1
NUM_LEDS == 15
SHUTTLE_VFD_ICON_VOL_NUM == 12
SHUTTLE_VFD_BASE_MASK == 32767
LED_OFF == 0
NUL == 0
NEWLINE == 10

(***************************************************************************)
(* Bounds of the model                                                     *)
(***************************************************************************)
\* concurrent callers in Spec
NumThreads == 2
\* operations started in one behaviour
MaxOps == 2
\* sends the transport may fail in one behaviour
MaxFaults == 1
\* bytes in front of the read buffer the trimming loop may run over
MaxUnderrun == 2

Threads == 1..NumThreads

VARIABLES
    icons_mask,   \* vfd->icons_mask
    packet,       \* vfd->packet, 8 bytes
    screen,       \* vfd->screen, 20 bytes
    vfd_mutex,    \* 0 when free, else the thread holding vfd->vfd_mutex
    pc,           \* per thread: the statement it executes next
    call,         \* per thread: the operation it runs, with its arguments
    loc,          \* per thread: the locals of the functions it is in
    wire,         \* history: what usb_control_msg was handed, in order
    writer,       \* history: per byte of packet, the operation that wrote it last
    errlog,       \* history: number of dev_err lines
    hist,         \* history: the operations started, in order
    dev,          \* the struct shuttle_vfd of the interface: "null", "alloc", "freed"
    registered,   \* the endpoints registered with the LED class and sysfs
    events        \* history: allocation, registration and release steps, in order

vars == <<icons_mask, packet, screen, vfd_mutex, pc, call, loc, wire, writer,
          errlog, hist, dev, registered, events>>

\* the part of the state only shuttle_vfd_probe and shuttle_vfd_disconnect change
life == <<dev, registered, events>>

(***************************************************************************)
(* Bit operations on unsigned values                                       *)
(***************************************************************************)
RECURSIVE BitOr(_, _)
BitOr(a, b) ==
    IF a = 0 THEN b
    ELSE IF b = 0 THEN a
    ELSE (IF a % 2 = 1 \/ b % 2 = 1 THEN 1 ELSE 0) + 2 * BitOr(a \div 2, b \div 2)

RECURSIVE BitAnd(_, _)
BitAnd(a, b) ==
    IF a = 0 \/ b = 0 THEN 0
    ELSE (IF a % 2 = 1 /\ b % 2 = 1 THEN 1 ELSE 0) + 2 * BitAnd(a \div 2, b \div 2)

\* a & ~b
RECURSIVE BitAndNot(_, _)
BitAndNot(a, b) ==
    IF a = 0 THEN 0
    ELSE (IF a % 2 = 1 /\ b % 2 = 0 THEN 1 ELSE 0) + 2 * BitAndNot(a \div 2, b \div 2)

RECURSIVE Shl(_, _)
Shl(x, n) == IF n = 0 THEN x ELSE Shl(2 * x, n - 1)

RECURSIVE Shr(_, _)
Shr(x, n) == IF n = 0 THEN x ELSE Shr(x \div 2, n - 1)

Min(a, b) == IF a < b THEN a ELSE b

(***************************************************************************)
(* Buffers                                                                 *)
(***************************************************************************)
Zeros(n) == [k \in 1..n |-> 0]

\* memset(dst, 0, n) on the first n bytes
Memset0(dst, n) == [k \in 1..Len(dst) |-> IF k <= n THEN 0 ELSE dst[k]]

\* memcpy(dst + doff, src + soff, n)
Memcpy(dst, doff, src, soff, n) ==
    [k \in 1..Len(dst) |->
        IF k > doff /\ k <= doff + n THEN src[soff + (k - doff)] ELSE dst[k]]

\* the history of writers follows every store into vfd->packet
Stamp(w, doff, n, id) ==
    [k \in 1..Len(w) |-> IF k > doff /\ k <= doff + n THEN id ELSE w[k]]

(***************************************************************************)
(* Thread bookkeeping                                                      *)
(***************************************************************************)
NoCall == [id |-> 0, kind |-> "none", pos |-> 0, value |-> 0, buf |-> <<>>,
           count |-> 0, pre_mask |-> 0, pre_screen |-> <<>>]

NoLoc == [tmp |-> 0, i |-> 0, len |-> 0, p |-> 0, result |-> 0, ra |-> "idle",
          buf |-> <<>>, sz |-> 0, ret |-> 0, failed |-> 0, sent |-> 0]

Goto(t, l) == pc' = [pc EXCEPT ![t] = l]

Id(t) == call[t].id

\* icons[i].mask, set by the probe: led->mask = 1 << i
LedMask(pos) == Shl(1, pos)

\* SHUTTLE_VFD_ICON_VOL(x)
SHUTTLE_VFD_ICON_VOL(x) == Shl(x, 15)

\* endpoints: icons[0..14] by index, then the volume LED and the text attribute
VolumeEndpoint == NUM_LEDS

TextEndpoint == NUM_LEDS + 1

IconEndpoints == 0..(NUM_LEDS - 1)

AllEndpoints == IconEndpoints \cup {VolumeEndpoint, TextEndpoint}

(***************************************************************************)
(* State after a successful probe: kzalloc'ed structure, icons_mask = 0,   *)
(* and the full clear of vfd_reset_cursor(dev, true) left in vfd->packet.  *)
(***************************************************************************)
ClearPacket(eraseall) ==
    [k \in 1..SHUTTLE_VFD_PACKET_SIZE |->
        IF k = 1 THEN 16 + 1
        ELSE IF k = 2 THEN (IF eraseall THEN 1 ELSE 2)
        ELSE 0]

Init ==
    /\ icons_mask = 0
    /\ packet = ClearPacket(TRUE)
    /\ screen = Zeros(SHUTTLE_VFD_WIDTH)
    /\ vfd_mutex = 0
    /\ pc = [t \in Threads |-> "idle"]
    /\ call = [t \in Threads |-> NoCall]
    /\ loc = [t \in Threads |-> NoLoc]
    /\ wire = <<[op |-> 0, kind |-> "probe", pkt |-> ClearPacket(TRUE),
                 torn |-> FALSE, res |-> SHUTTLE_VFD_PACKET_SIZE]>>
    /\ writer = Zeros(SHUTTLE_VFD_PACKET_SIZE)
    /\ errlog = 0
    /\ hist = <<>>
    /\ dev = "alloc"
    /\ registered = AllEndpoints
    /\ events = <<>>

(***************************************************************************)
(* vfd_send_packet(vfd, NULL)                                              *)
(***************************************************************************)
\* callers: packet building is done, call vfd_send_packet and come back at ra
CallSend(t, ra) ==
    /\ Goto(t, "sp_lock")
    /\ loc' = [loc EXCEPT ![t].ra = ra]

\* mutex_lock(&vfd->vfd_mutex)
sp_lock(t) ==
    /\ pc[t] = "sp_lock"
    /\ vfd_mutex = 0
    /\ vfd_mutex' = t
    /\ Goto(t, "sp_usb")
    /\ UNCHANGED <<icons_mask, packet, screen, call, loc, wire, writer, errlog, hist>>
    /\ UNCHANGED life

\* history: some byte of vfd->packet was last written by another operation than id
Torn(id) == \E k \in 1..SHUTTLE_VFD_PACKET_SIZE : writer[k] # id

Faults == Cardinality({k \in 1..Len(wire) : wire[k].res < 0})

\* what usb_control_msg returns: the 8 bytes transferred, or a negative errno
\* (here -ETIMEDOUT), the latter at most `budget' times in a behaviour
UsbResults(budget) ==
    {SHUTTLE_VFD_PACKET_SIZE} \cup (IF Faults < budget THEN {-110} ELSE {})

\* mutant of sp_usb: the mutex is released at the transfer, before the sleep
sp_usb_unlocked(t, budget) ==
    /\ pc[t] = "sp_usb"
    /\ \E r \in UsbResults(budget) :
        /\ wire' = Append(wire, [op |-> Id(t), kind |-> call[t].kind, pkt |-> packet,
                                 torn |-> Torn(Id(t)), res |-> r])
        /\ loc' = [loc EXCEPT ![t].result = r]
    /\ vfd_mutex' = 0
    /\ Goto(t, "sp_sleep")
    /\ UNCHANGED <<icons_mask, packet, screen, call, writer, errlog, hist>>
    /\ UNCHANGED life

\* result = usb_control_msg(..., vfd->packet, SHUTTLE_VFD_PACKET_SIZE, ...)
sp_usb(t, budget) ==
    /\ pc[t] = "sp_usb"
    /\ \E r \in UsbResults(budget) :
        /\ wire' = Append(wire, [op |-> Id(t), kind |-> call[t].kind, pkt |-> packet,
                                 torn |-> Torn(Id(t)), res |-> r])
        /\ loc' = [loc EXCEPT ![t].result = r,
                              ![t].sent = @ + 1,
                              ![t].failed = IF r < 0 THEN @ + 1 ELSE @]
    /\ Goto(t, "sp_sleep")
    /\ UNCHANGED <<icons_mask, packet, screen, vfd_mutex, call, writer, errlog, hist>>
    /\ UNCHANGED life

\* msleep(24 ms), inside the critical section
sp_sleep(t) ==
    /\ pc[t] = "sp_sleep"
    /\ Goto(t, "sp_unlock")
    /\ UNCHANGED <<icons_mask, packet, screen, vfd_mutex, call, loc, wire, writer,
                   errlog, hist>>
    /\ UNCHANGED life

\* mutex_unlock(&vfd->vfd_mutex)
sp_unlock(t) ==
    /\ pc[t] = "sp_unlock"
    /\ vfd_mutex = t
    /\ vfd_mutex' = 0
    /\ Goto(t, "sp_ret")
    /\ UNCHANGED <<icons_mask, packet, screen, call, loc, wire, writer, errlog, hist>>
    /\ UNCHANGED life

\* dev_err lines written for a result
ErrLines(result) == IF result < 0 THEN 1 ELSE 0

\* mutant of sp_ret: a failed transfer is tried again
sp_ret_retry(t) ==
    /\ pc[t] = "sp_ret"
    /\ errlog' = errlog + ErrLines(loc[t].result)
    /\ Goto(t, IF loc[t].result < 0 THEN "sp_lock" ELSE loc[t].ra)
    /\ UNCHANGED <<icons_mask, packet, screen, vfd_mutex, call, loc, wire, writer, hist>>
    /\ UNCHANGED life

\* if (result < 0) dev_err(...); return result;
sp_ret(t) ==
    /\ pc[t] = "sp_ret"
    /\ errlog' = errlog + ErrLines(loc[t].result)
    /\ Goto(t, loc[t].ra)
    /\ UNCHANGED <<icons_mask, packet, screen, vfd_mutex, call, loc, wire, writer, hist>>
    /\ UNCHANGED life

vfd_send_packet(t, budget) ==
    sp_lock(t) \/ sp_usb(t, budget) \/ sp_sleep(t) \/ sp_unlock(t) \/ sp_ret(t)

(***************************************************************************)
(* vfd_set_icons(vfd)                                                      *)
(***************************************************************************)
\* the command byte of an icons packet: (7 << 4) + 4
IconsHeader == 7 * 16 + 4

\* mutant of IconsByte: the four groups in the opposite order
IconsByteReversed(mask, k) == Shr(mask, 5 * k) % 32

\* data byte k (0..3) of the icons packet: (icons_mask >> (15 - 5k)) & 0x1F
IconsByte(mask, k) == Shr(mask, 15 - 5 * k) % 32

\* memset(&vfd->packet[0], 0, SHUTTLE_VFD_PACKET_SIZE)
si_memset(t) ==
    /\ pc[t] = "si_memset"
    /\ packet' = Memset0(packet, SHUTTLE_VFD_PACKET_SIZE)
    /\ writer' = Stamp(writer, 0, SHUTTLE_VFD_PACKET_SIZE, Id(t))
    /\ Goto(t, "si_cmd")
    /\ UNCHANGED <<icons_mask, screen, vfd_mutex, call, loc, wire, errlog, hist>>
    /\ UNCHANGED life

\* vfd->packet[0] = (7 << 4) + 4
si_cmd(t) ==
    /\ pc[t] = "si_cmd"
    /\ packet' = [packet EXCEPT ![1] = IconsHeader]
    /\ writer' = Stamp(writer, 0, 1, Id(t))
    /\ loc' = [loc EXCEPT ![t].i = 0]
    /\ Goto(t, "si_byte")
    /\ UNCHANGED <<icons_mask, screen, vfd_mutex, call, wire, errlog, hist>>
    /\ UNCHANGED life

\* vfd->packet[1 + k] = (vfd->icons_mask >> (15 - 5k)) & 0x1F, for k = 0..3:
\* four statements, each reading icons_mask anew
si_byte(t) ==
    /\ pc[t] = "si_byte"
    /\ LET k == loc[t].i IN
        /\ packet' = [packet EXCEPT ![2 + k] = IconsByte(icons_mask, k)]
        /\ writer' = Stamp(writer, 1 + k, 1, Id(t))
        /\ IF k < 3
           THEN /\ loc' = [loc EXCEPT ![t].i = k + 1]
                /\ UNCHANGED pc
           ELSE CallSend(t, "led_ret")
    /\ UNCHANGED <<icons_mask, screen, vfd_mutex, call, wire, errlog, hist>>
    /\ UNCHANGED life

vfd_set_icons(t) == si_memset(t) \/ si_cmd(t) \/ si_byte(t)

(***************************************************************************)
(* vfd_led_generic_set(led_cdev, value): brightness_set of a binary icon   *)
(***************************************************************************)
\* mutant of GenericSetValue: the brightness value shifted into the mask
GenericSetRaw(old, mask, value) ==
    IF value # LED_OFF THEN BitOr(old, value * mask) ELSE BitAndNot(old, mask)

\* mutant of GenericSetValue: a nonzero value flips the icon's bit
GenericSetToggle(old, mask, value) ==
    IF value # LED_OFF /\ BitAnd(old, mask) = 0 THEN BitOr(old, mask)
    ELSE BitAndNot(old, mask)

\* the value stored by icons_mask |= led->mask or icons_mask &= ~led->mask
GenericSetValue(old, mask, value) ==
    IF value # LED_OFF THEN BitOr(old, mask) ELSE BitAndNot(old, mask)

\* the load of the read-modify-write on led->vfd->icons_mask
gs_load(t) ==
    /\ pc[t] = "gs_load"
    /\ loc' = [loc EXCEPT ![t].tmp = icons_mask]
    /\ Goto(t, "gs_store")
    /\ UNCHANGED <<icons_mask, packet, screen, vfd_mutex, call, wire, writer, errlog, hist>>
    /\ UNCHANGED life

\* its store
gs_store(t) ==
    /\ pc[t] = "gs_store"
    /\ icons_mask' = GenericSetValue(loc[t].tmp, LedMask(call[t].pos), call[t].value)
    /\ Goto(t, "si_memset")
    /\ UNCHANGED <<packet, screen, vfd_mutex, call, loc, wire, writer, errlog, hist>>
    /\ UNCHANGED life

\* the brightness_set callbacks return void
led_ret(t) ==
    /\ pc[t] = "led_ret"
    /\ Goto(t, "idle")
    /\ UNCHANGED <<icons_mask, packet, screen, vfd_mutex, call, loc, wire, writer,
                   errlog, hist>>
    /\ UNCHANGED life

vfd_led_generic_set(t) == gs_load(t) \/ gs_store(t) \/ led_ret(t)

(***************************************************************************)
(* vfd_led_volume_set(led_cdev, value): brightness_set of the volume       *)
(***************************************************************************)
\* mutant of VolumeClearValue: the icon bits are cleared with the volume bits
VolumeClearAll(old) == 0

\* the value stored by icons_mask &= SHUTTLE_VFD_BASE_MASK
VolumeClearValue(old) == BitAnd(old, SHUTTLE_VFD_BASE_MASK)

\* the value stored by icons_mask |= SHUTTLE_VFD_ICON_VOL(value)
VolumeSetValue(old, value) == BitOr(old, SHUTTLE_VFD_ICON_VOL(value))

vs_load1(t) ==
    /\ pc[t] = "vs_load1"
    /\ loc' = [loc EXCEPT ![t].tmp = icons_mask]
    /\ Goto(t, "vs_store1")
    /\ UNCHANGED <<icons_mask, packet, screen, vfd_mutex, call, wire, writer, errlog, hist>>
    /\ UNCHANGED life

\* if (value != LED_OFF) follows the store and reads only the argument
vs_store1(t) ==
    /\ pc[t] = "vs_store1"
    /\ icons_mask' = VolumeClearValue(loc[t].tmp)
    /\ Goto(t, IF call[t].value # LED_OFF THEN "vs_load2" ELSE "si_memset")
    /\ UNCHANGED <<packet, screen, vfd_mutex, call, loc, wire, writer, errlog, hist>>
    /\ UNCHANGED life

vs_load2(t) ==
    /\ pc[t] = "vs_load2"
    /\ loc' = [loc EXCEPT ![t].tmp = icons_mask]
    /\ Goto(t, "vs_store2")
    /\ UNCHANGED <<icons_mask, packet, screen, vfd_mutex, call, wire, writer, errlog, hist>>
    /\ UNCHANGED life

vs_store2(t) ==
    /\ pc[t] = "vs_store2"
    /\ icons_mask' = VolumeSetValue(loc[t].tmp, call[t].value)
    /\ Goto(t, "si_memset")
    /\ UNCHANGED <<packet, screen, vfd_mutex, call, loc, wire, writer, errlog, hist>>
    /\ UNCHANGED life

vfd_led_volume_set(t) == vs_load1(t) \/ vs_store1(t) \/ vs_load2(t) \/ vs_store2(t)

(***************************************************************************)
(* vfd_reset_cursor(vfd, eraseall): eraseall is false when the text write  *)
(* calls it, true when the probe calls it                                  *)
(***************************************************************************)
\* the eraseall argument of thread t's call
EraseAll(t) == call[t].kind = "probe"

\* memset(&vfd->packet[0], 0, SHUTTLE_VFD_PACKET_SIZE)
rc_memset(t) ==
    /\ pc[t] = "rc_memset"
    /\ packet' = Memset0(packet, SHUTTLE_VFD_PACKET_SIZE)
    /\ writer' = Stamp(writer, 0, SHUTTLE_VFD_PACKET_SIZE, Id(t))
    /\ Goto(t, "rc_cmd")
    /\ UNCHANGED <<icons_mask, screen, vfd_mutex, call, loc, wire, errlog, hist>>
    /\ UNCHANGED life

\* vfd->packet[0] = (1 << 4) + 1
rc_cmd(t) ==
    /\ pc[t] = "rc_cmd"
    /\ packet' = [packet EXCEPT ![1] = ClearPacket(FALSE)[1]]
    /\ writer' = Stamp(writer, 0, 1, Id(t))
    /\ Goto(t, "rc_arg")
    /\ UNCHANGED <<icons_mask, screen, vfd_mutex, call, loc, wire, errlog, hist>>
    /\ UNCHANGED life

\* if (eraseall) vfd->packet[1] = 1; else vfd->packet[1] = 2;
\* vfd_send_packet(vfd, NULL); back in the text write or in the probe
rc_arg(t) ==
    /\ pc[t] = "rc_arg"
    /\ packet' = [packet EXCEPT ![2] = ClearPacket(EraseAll(t))[2]]
    /\ writer' = Stamp(writer, 1, 1, Id(t))
    /\ CallSend(t, IF EraseAll(t) THEN "pr_ret" ELSE "st_loop")
    /\ UNCHANGED <<icons_mask, screen, vfd_mutex, call, wire, errlog, hist>>
    /\ UNCHANGED life

vfd_reset_cursor(t) == rc_memset(t) \/ rc_cmd(t) \/ rc_arg(t)

(***************************************************************************)
(* vfd_set_text(vfd, len)                                                  *)
(***************************************************************************)
\* the command byte of a text packet: (9 << 4) + len
TextHeader(len) == 9 * 16 + len

\* mutant of TailClear: the memset before the last chunk left out
TailClearNone(pkt) == pkt

\* the packet buffer before the last, short chunk is copied in:
\* memset(&vfd->packet[0], 0, SHUTTLE_VFD_PACKET_SIZE)
TailClear(pkt) == Memset0(pkt, SHUTTLE_VFD_PACKET_SIZE)

\* for (i = 0; i < len/SHUTTLE_VFD_DATA_SIZE; i++) { vfd->packet[0] = (9 << 4) + 7;
st_loop(t) ==
    /\ pc[t] = "st_loop"
    /\ IF loc[t].i < loc[t].len \div SHUTTLE_VFD_DATA_SIZE
       THEN /\ packet' = [packet EXCEPT ![1] = TextHeader(SHUTTLE_VFD_DATA_SIZE)]
            /\ writer' = Stamp(writer, 0, 1, Id(t))
            /\ Goto(t, "st_copy")
       ELSE /\ Goto(t, "st_tail")
            /\ UNCHANGED <<packet, writer>>
    /\ UNCHANGED <<icons_mask, screen, vfd_mutex, call, loc, wire, errlog, hist>>
    /\ UNCHANGED life

\* memcpy(vfd->packet + 1, p, 7); p += 7; vfd_send_packet(vfd, NULL); } i++
st_copy(t) ==
    /\ pc[t] = "st_copy"
    /\ packet' = Memcpy(packet, 1, screen, loc[t].p, SHUTTLE_VFD_DATA_SIZE)
    /\ writer' = Stamp(writer, 1, SHUTTLE_VFD_DATA_SIZE, Id(t))
    /\ Goto(t, "sp_lock")
    /\ loc' = [loc EXCEPT ![t].p = @ + SHUTTLE_VFD_DATA_SIZE,
                          ![t].i = @ + 1,
                          ![t].ra = "st_loop"]
    /\ UNCHANGED <<icons_mask, screen, vfd_mutex, call, wire, errlog, hist>>
    /\ UNCHANGED life

\* len = len % SHUTTLE_VFD_DATA_SIZE; if (len != 0) { memset(packet, 0, 8);
st_tail(t) ==
    /\ pc[t] = "st_tail"
    /\ loc' = [loc EXCEPT ![t].len = @ % SHUTTLE_VFD_DATA_SIZE]
    /\ IF loc[t].len % SHUTTLE_VFD_DATA_SIZE # 0
       THEN /\ packet' = TailClear(packet)
            /\ writer' = Stamp(writer, 0, SHUTTLE_VFD_PACKET_SIZE, Id(t))
            /\ Goto(t, "st_tcmd")
       ELSE /\ Goto(t, "txt_ret")
            /\ UNCHANGED <<packet, writer>>
    /\ UNCHANGED <<icons_mask, screen, vfd_mutex, call, wire, errlog, hist>>
    /\ UNCHANGED life

\* vfd->packet[0] = (9 << 4) + len
st_tcmd(t) ==
    /\ pc[t] = "st_tcmd"
    /\ packet' = [packet EXCEPT ![1] = TextHeader(loc[t].len)]
    /\ writer' = Stamp(writer, 0, 1, Id(t))
    /\ Goto(t, "st_tcopy")
    /\ UNCHANGED <<icons_mask, screen, vfd_mutex, call, loc, wire, errlog, hist>>
    /\ UNCHANGED life

\* memcpy(vfd->packet + 1, p, len); vfd_send_packet(vfd, NULL); }
st_tcopy(t) ==
    /\ pc[t] = "st_tcopy"
    /\ packet' = Memcpy(packet, 1, screen, loc[t].p, loc[t].len)
    /\ writer' = Stamp(writer, 1, loc[t].len, Id(t))
    /\ CallSend(t, "txt_ret")
    /\ UNCHANGED <<icons_mask, screen, vfd_mutex, call, wire, errlog, hist>>
    /\ UNCHANGED life

vfd_set_text(t) == st_loop(t) \/ st_copy(t) \/ st_tail(t) \/ st_tcmd(t) \/ st_tcopy(t)

(***************************************************************************)
(* set_vfd_text_handler(dev, attr, buf, count): the text attribute's store *)
(***************************************************************************)
\* mutant of ScreenCleared: the zero fill of a short write left out
ScreenKept(scr, count) == scr

\* if (count < SHUTTLE_VFD_WIDTH) memset(&vfd->screen[0], 0, SHUTTLE_VFD_WIDTH)
ScreenCleared(scr, count) ==
    IF count < SHUTTLE_VFD_WIDTH THEN Memset0(scr, SHUTTLE_VFD_WIDTH) ELSE scr

\* l = min(count, (size_t)SHUTTLE_VFD_WIDTH)
CopyLen(count) == Min(count, SHUTTLE_VFD_WIDTH)

\* mutant of TextReturn: -EIO when a send of the write failed
TextReturnError(count, failed) == IF failed > 0 THEN -5 ELSE count

\* what the store returns to the caller of write(2)
TextReturn(count, failed) == count

txt_clear(t) ==
    /\ pc[t] = "txt_clear"
    /\ screen' = ScreenCleared(screen, call[t].count)
    /\ Goto(t, "txt_copy")
    /\ UNCHANGED <<icons_mask, packet, vfd_mutex, call, loc, wire, writer, errlog, hist>>
    /\ UNCHANGED life

\* memcpy(&vfd->screen[0], buf, l); then vfd_reset_cursor(vfd, false) and
\* vfd_set_text(vfd, SHUTTLE_VFD_WIDTH) are entered
txt_copy(t) ==
    /\ pc[t] = "txt_copy"
    /\ screen' = Memcpy(screen, 0, call[t].buf, 0, CopyLen(call[t].count))
    /\ loc' = [loc EXCEPT ![t].i = 0, ![t].p = 0, ![t].len = SHUTTLE_VFD_WIDTH]
    /\ Goto(t, "rc_memset")
    /\ UNCHANGED <<icons_mask, packet, vfd_mutex, call, wire, writer, errlog, hist>>
    /\ UNCHANGED life

\* return count
txt_ret(t) ==
    /\ pc[t] = "txt_ret"
    /\ loc' = [loc EXCEPT ![t].ret = TextReturn(call[t].count, loc[t].failed)]
    /\ Goto(t, "idle")
    /\ UNCHANGED <<icons_mask, packet, screen, vfd_mutex, call, wire, writer, errlog, hist>>
    /\ UNCHANGED life

set_vfd_text_handler(t) == txt_clear(t) \/ txt_copy(t) \/ txt_ret(t)

(***************************************************************************)
(* get_vfd_text_handler(dev, attr, buf): the text attribute's show         *)
(***************************************************************************)
IsTrimmed(b) == b = NUL \/ b = NEWLINE

\* while (buf[sz-1] == '\0' || buf[sz-1] == '\n') sz--;  as long as sz-1 >= 0
RECURSIVE TrimInside(_, _)
TrimInside(buf, sz) ==
    IF sz >= 1 /\ IsTrimmed(buf[sz]) THEN TrimInside(buf, sz - 1) ELSE sz

\* The loop has no lower bound on sz.  With sz = 0 it reads buf[-1], a byte in
\* front of the buffer the caller passed: any value.  Each such byte that is
\* NUL or newline moves sz one further down.
TrimResults(buf) ==
    LET n == TrimInside(buf, SHUTTLE_VFD_WIDTH) IN
    IF n > 0 THEN {n} ELSE {-k : k \in 0..MaxUnderrun}

\* memcpy(buf, &vfd->screen[0], SHUTTLE_VFD_WIDTH)
rd_copy(t) ==
    /\ pc[t] = "rd_copy"
    /\ loc' = [loc EXCEPT ![t].buf = screen, ![t].sz = SHUTTLE_VFD_WIDTH]
    /\ Goto(t, "rd_trim")
    /\ UNCHANGED <<icons_mask, packet, screen, vfd_mutex, call, wire, writer, errlog, hist>>
    /\ UNCHANGED life

\* the loop; buf[sz] = '\n'; return sz + 1.  A store at a negative sz lands in
\* front of buf and leaves buf as it is.
rd_trim(t) ==
    /\ pc[t] = "rd_trim"
    /\ \E sz \in TrimResults(loc[t].buf) :
        loc' = [loc EXCEPT ![t].sz = sz,
                           ![t].buf = IF sz >= 0
                                      THEN [k \in 1..(SHUTTLE_VFD_WIDTH + 1) |->
                                              IF k = sz + 1 THEN NEWLINE
                                              ELSE IF k <= SHUTTLE_VFD_WIDTH THEN @[k]
                                              ELSE NUL]
                                      ELSE @ \o <<NUL>>,
                           ![t].ret = sz + 1]
    /\ Goto(t, "idle")
    /\ UNCHANGED <<icons_mask, packet, screen, vfd_mutex, call, wire, writer, errlog, hist>>
    /\ UNCHANGED life

get_vfd_text_handler(t) == rd_copy(t) \/ rd_trim(t)

(***************************************************************************)
(* shuttle_vfd_probe(interface, id)                                        *)
(***************************************************************************)
SHUTTLE_VFD_INTERFACE == 1

ENOMEM == 12

\* history: thread t's operation took lifecycle step ev on endpoint ep
Log(t, ev, ep) == events' = Append(events, [op |-> Id(t), ev |-> ev, ep |-> ep])

\* what led_classdev_register and device_create_file return: 0, or a negative
\* errno where the behaviours include failing helpers
HelperResults(failing) == {0} \cup (IF failing THEN {-ENOMEM} ELSE {})

\* whether kzalloc returns a structure
AllocResults(failing) == {TRUE} \cup (IF failing THEN {FALSE} ELSE {})

\* led_classdev_register, device_create_file
Register(reg, ep) == reg \cup {ep}

\* mutant of Unregister: the endpoint stays registered
UnregisterNothing(reg, ep) == reg

\* led_classdev_unregister, device_remove_file
Unregister(reg, ep) == reg \ {ep}

\* mutant of UnwindFrom: the unwinding starts at the icon whose registration failed
UnwindFromSame(i) == i

\* the initialisation i-- of the loop at the label error
UnwindFrom(i) == i - 1

\* retval = -ENOMEM; if (bInterfaceNumber != SHUTTLE_VFD_INTERFACE) goto error_mem
pr_check(t) ==
    /\ pc[t] = "pr_check"
    /\ loc' = [loc EXCEPT ![t].ret = -ENOMEM]
    /\ Goto(t, IF call[t].pos # SHUTTLE_VFD_INTERFACE THEN "pr_error_mem" ELSE "pr_alloc")
    /\ UNCHANGED <<icons_mask, packet, screen, vfd_mutex, call, wire, writer, errlog, hist>>
    /\ UNCHANGED life

\* dev = kzalloc(...); if (!dev) { dev_err(...); goto error_mem; }
pr_alloc(t, failing) ==
    /\ pc[t] = "pr_alloc"
    /\ \E ok \in AllocResults(failing) :
        IF ok
        THEN /\ dev' = "alloc"
             /\ icons_mask' = 0
             /\ packet' = Zeros(SHUTTLE_VFD_PACKET_SIZE)
             /\ screen' = Zeros(SHUTTLE_VFD_WIDTH)
             /\ writer' = Zeros(SHUTTLE_VFD_PACKET_SIZE)
             /\ Log(t, "alloc", 0)
             /\ Goto(t, "pr_init")
             /\ UNCHANGED errlog
        ELSE /\ errlog' = errlog + 1
             /\ Goto(t, "pr_error_mem")
             /\ UNCHANGED <<dev, icons_mask, packet, screen, writer, events>>
    /\ UNCHANGED <<vfd_mutex, call, loc, wire, hist, registered>>

\* dev->udev = usb_get_dev(...); dev->icons_mask = 0; usb_set_intfdata(interface,
\* dev); mutex_init(&dev->vfd_mutex); i = 0
pr_init(t) ==
    /\ pc[t] = "pr_init"
    /\ icons_mask' = 0
    /\ vfd_mutex' = 0
    /\ Log(t, "get", 0)
    /\ loc' = [loc EXCEPT ![t].i = 0]
    /\ Goto(t, "pr_icon")
    /\ UNCHANGED <<packet, screen, call, wire, writer, errlog, hist, dev, registered>>

\* one turn of the loop: led->mask = 1 << i; ...; retval =
\* led_classdev_register(...); if (retval < 0) goto error; i++
pr_icon(t, failing) ==
    /\ pc[t] = "pr_icon"
    /\ LET i == loc[t].i IN
       \E r \in HelperResults(failing) :
        IF r < 0
        THEN /\ loc' = [loc EXCEPT ![t].ret = r]
             /\ Goto(t, "pr_error")
             /\ UNCHANGED <<registered, events>>
        ELSE /\ registered' = Register(registered, i)
             /\ Log(t, "register", i)
             /\ loc' = [loc EXCEPT ![t].ret = r, ![t].i = i + 1]
             /\ Goto(t, IF i + 1 < NUM_LEDS THEN "pr_icon" ELSE "pr_volume")
    /\ UNCHANGED <<icons_mask, packet, screen, vfd_mutex, call, wire, writer, errlog,
                   hist, dev>>

\* led = &dev->volume; ...; retval = led_classdev_register(...);
\* if (retval < 0) goto error
pr_volume(t, failing) ==
    /\ pc[t] = "pr_volume"
    /\ \E r \in HelperResults(failing) :
        /\ loc' = [loc EXCEPT ![t].ret = r]
        /\ IF r < 0
           THEN /\ Goto(t, "pr_error")
                /\ UNCHANGED <<registered, events>>
           ELSE /\ registered' = Register(registered, VolumeEndpoint)
                /\ Log(t, "register", VolumeEndpoint)
                /\ Goto(t, "pr_file")
    /\ UNCHANGED <<icons_mask, packet, screen, vfd_mutex, call, wire, writer, errlog,
                   hist, dev>>

\* retval = device_create_file(&interface->dev, &dev_attr_text);
\* if (retval) goto error2; vfd_reset_cursor(dev, true) is entered
pr_file(t, failing) ==
    /\ pc[t] = "pr_file"
    /\ \E r \in HelperResults(failing) :
        /\ loc' = [loc EXCEPT ![t].ret = r]
        /\ IF r # 0
           THEN /\ Goto(t, "pr_error2")
                /\ UNCHANGED <<registered, events>>
           ELSE /\ registered' = Register(registered, TextEndpoint)
                /\ Log(t, "register", TextEndpoint)
                /\ Goto(t, "rc_memset")
    /\ UNCHANGED <<icons_mask, packet, screen, vfd_mutex, call, wire, writer, errlog,
                   hist, dev>>

\* return 0
pr_ret(t) ==
    /\ pc[t] = "pr_ret"
    /\ loc' = [loc EXCEPT ![t].ret = 0]
    /\ Goto(t, "idle")
    /\ UNCHANGED <<icons_mask, packet, screen, vfd_mutex, call, wire, writer, errlog, hist>>
    /\ UNCHANGED life

shuttle_vfd_probe(t, failing) ==
    \/ pr_check(t) \/ pr_alloc(t, failing) \/ pr_init(t) \/ pr_icon(t, failing)
    \/ pr_volume(t, failing) \/ pr_file(t, failing) \/ pr_ret(t)

(***************************************************************************)
(* shuttle_vfd_probe, from the label error2 on                             *)
(***************************************************************************)
\* error2: led_classdev_unregister(&dev->volume.led_cdev)
pr_error2(t) ==
    /\ pc[t] = "pr_error2"
    /\ registered' = Unregister(registered, VolumeEndpoint)
    /\ Log(t, "unregister", VolumeEndpoint)
    /\ Goto(t, "pr_error")
    /\ UNCHANGED <<icons_mask, packet, screen, vfd_mutex, call, loc, wire, writer,
                   errlog, hist, dev>>

\* error: for (i--; ...
pr_error(t) ==
    /\ pc[t] = "pr_error"
    /\ loc' = [loc EXCEPT ![t].i = UnwindFrom(@)]
    /\ Goto(t, "pr_unwind")
    /\ UNCHANGED <<icons_mask, packet, screen, vfd_mutex, call, wire, writer, errlog, hist>>
    /\ UNCHANGED life

\* ... i >= 0; i--) led_classdev_unregister(&dev->icons[i].led_cdev)
pr_unwind(t) ==
    /\ pc[t] = "pr_unwind"
    /\ IF loc[t].i >= 0
       THEN /\ registered' = Unregister(registered, loc[t].i)
            /\ Log(t, "unregister", loc[t].i)
            /\ loc' = [loc EXCEPT ![t].i = @ - 1]
            /\ UNCHANGED pc
       ELSE /\ Goto(t, "pr_put")
            /\ UNCHANGED <<registered, events, loc>>
    /\ UNCHANGED <<icons_mask, packet, screen, vfd_mutex, call, wire, writer, errlog,
                   hist, dev>>

\* usb_set_intfdata(interface, NULL); usb_put_dev(dev->udev)
pr_put(t) ==
    /\ pc[t] = "pr_put"
    /\ Log(t, "put", 0)
    /\ Goto(t, "pr_free")
    /\ UNCHANGED <<icons_mask, packet, screen, vfd_mutex, call, loc, wire, writer,
                   errlog, hist, dev, registered>>

\* kfree(dev)
pr_free(t) ==
    /\ pc[t] = "pr_free"
    /\ dev' = "freed"
    /\ Log(t, "free", 0)
    /\ Goto(t, "pr_error_mem")
    /\ UNCHANGED <<icons_mask, packet, screen, vfd_mutex, call, loc, wire, writer,
                   errlog, hist, registered>>

\* error_mem: return retval
pr_error_mem(t) ==
    /\ pc[t] = "pr_error_mem"
    /\ Goto(t, "idle")
    /\ UNCHANGED <<icons_mask, packet, screen, vfd_mutex, call, loc, wire, writer,
                   errlog, hist>>
    /\ UNCHANGED life

probe_error(t) ==
    \/ pr_error2(t) \/ pr_error(t) \/ pr_unwind(t) \/ pr_put(t) \/ pr_free(t)
    \/ pr_error_mem(t)

(***************************************************************************)
(* shuttle_vfd_disconnect(interface)                                       *)
(***************************************************************************)
\* for (i = 0; i < NUM_LEDS; i++) led_classdev_unregister(&dev->icons[i].led_cdev)
dc_icons(t) ==
    /\ pc[t] = "dc_icons"
    /\ registered' = Unregister(registered, loc[t].i)
    /\ Log(t, "unregister", loc[t].i)
    /\ loc' = [loc EXCEPT ![t].i = @ + 1]
    /\ Goto(t, IF loc[t].i + 1 < NUM_LEDS THEN "dc_icons" ELSE "dc_volume")
    /\ UNCHANGED <<icons_mask, packet, screen, vfd_mutex, call, wire, writer, errlog,
                   hist, dev>>

\* led_classdev_unregister(&dev->volume.led_cdev)
dc_volume(t) ==
    /\ pc[t] = "dc_volume"
    /\ registered' = Unregister(registered, VolumeEndpoint)
    /\ Log(t, "unregister", VolumeEndpoint)
    /\ Goto(t, "dc_file")
    /\ UNCHANGED <<icons_mask, packet, screen, vfd_mutex, call, loc, wire, writer,
                   errlog, hist, dev>>

\* device_remove_file(&interface->dev, &dev_attr_text)
dc_file(t) ==
    /\ pc[t] = "dc_file"
    /\ registered' = Unregister(registered, TextEndpoint)
    /\ Log(t, "unregister", TextEndpoint)
    /\ Goto(t, "dc_put")
    /\ UNCHANGED <<icons_mask, packet, screen, vfd_mutex, call, loc, wire, writer,
                   errlog, hist, dev>>

\* usb_set_intfdata(interface, NULL); usb_put_dev(dev->udev)
dc_put(t) ==
    /\ pc[t] = "dc_put"
    /\ Log(t, "put", 0)
    /\ Goto(t, "dc_free")
    /\ UNCHANGED <<icons_mask, packet, screen, vfd_mutex, call, loc, wire, writer,
                   errlog, hist, dev, registered>>

\* kfree(dev)
dc_free(t) ==
    /\ pc[t] = "dc_free"
    /\ dev' = "freed"
    /\ Log(t, "free", 0)
    /\ Goto(t, "idle")
    /\ UNCHANGED <<icons_mask, packet, screen, vfd_mutex, call, loc, wire, writer,
                   errlog, hist, registered>>

shuttle_vfd_disconnect(t) ==
    dc_icons(t) \/ dc_volume(t) \/ dc_file(t) \/ dc_put(t) \/ dc_free(t)

(***************************************************************************)
(* The callers: the LED class core calling brightness_set, sysfs calling   *)
(* the text attribute's store and show                                     *)
(***************************************************************************)
Begin(t, kind, pos, value, buf, entry) ==
    /\ pc[t] = "idle"
    /\ Len(hist) < MaxOps
    /\ LET c == [id |-> Len(hist) + 1, kind |-> kind, pos |-> pos, value |-> value,
                 buf |-> buf, count |-> Len(buf), pre_mask |-> icons_mask,
                 pre_screen |-> screen]
       IN /\ call' = [call EXCEPT ![t] = c]
          /\ hist' = Append(hist, c)
    /\ loc' = [loc EXCEPT ![t] = NoLoc]
    /\ Goto(t, entry)
    /\ UNCHANGED <<icons_mask, packet, screen, vfd_mutex, wire, writer, errlog>>
    /\ UNCHANGED life

\* an endpoint is called while it is registered
CallIconSet(t, pos, value) ==
    /\ pos \in registered
    /\ Begin(t, "icon", pos, value, <<>>, "gs_load")

CallVolumeSet(t, value) ==
    /\ VolumeEndpoint \in registered
    /\ Begin(t, "volume", NUM_LEDS, value, <<>>, "vs_load1")

CallTextWrite(t, buf) ==
    /\ TextEndpoint \in registered
    /\ Begin(t, "text", 0, 0, buf, "txt_clear")

CallTextRead(t) ==
    /\ TextEndpoint \in registered
    /\ Begin(t, "read", 0, 0, <<>>, "rd_copy")

\* the USB core binds the driver to an interface that has no device instance
CallProbe(t, ifnum) ==
    /\ dev # "alloc"
    /\ \A u \in Threads : pc[u] = "idle"
    /\ Begin(t, "probe", ifnum, 0, <<>>, "pr_check")

\* the USB core unbinds the driver from an interface the probe succeeded on
CallDisconnect(t) ==
    /\ dev = "alloc"
    /\ registered = AllEndpoints
    /\ \A u \in Threads : pc[u] = "idle"
    /\ Begin(t, "disconnect", 0, 0, <<>>, "dc_icons")

(***************************************************************************)
(* Inputs                                                                  *)
(***************************************************************************)
\* n bytes, all b
Fill(n, b) == [k \in 1..n |-> b]

\* "test 123"
Test123 == <<116, 101, 115, 116, 32, 49, 50, 51>>

\* "ABCDEFGHIJKLMNOPQRSTUVWXYZ", cut to n bytes
Letters(n) == [k \in 1..n |-> 64 + k]

\* all 15 icons; enum led_brightness values inside and outside {0, 1}
LedPositions == 0..(NUM_LEDS - 1)

LedBrightness == {0, 1, 15}

\* volume levels inside and outside 0..SHUTTLE_VFD_ICON_VOL_NUM
LedVolumes == {0, 1, SHUTTLE_VFD_ICON_VOL_NUM, SHUTTLE_VFD_ICON_VOL_NUM + 1, 16, 255}

\* written texts: shorter than, as long as and longer than the screen, with
\* NUL and newline bytes at the end, inside, and alone
Texts ==
    { Test123, Test123 \o <<NEWLINE>>, <<NEWLINE>>, <<NUL, NEWLINE, NUL>>,
      <<97, NEWLINE, NUL, 98, NEWLINE, NEWLINE>>,
      Letters(19), Letters(20), Letters(22),
      Letters(19) \o <<NEWLINE>>, Fill(21, NEWLINE) }

FewPositions == {0, 14}

FewBrightness == {0, 1}

FewVolumes == {0, SHUTTLE_VFD_ICON_VOL_NUM}

FewTexts == { Test123, Letters(22) }

ConcPositions == {0, 5}

MixPositions == {5}

ConcBrightness == {1}

ConcVolumes == {SHUTTLE_VFD_ICON_VOL_NUM}

ConcTexts == { <<104, 105>> }

(***************************************************************************)
(* Spec: NumThreads concurrent callers of the LED endpoints, any           *)
(* interleaving of their statements, on a transport that does not fail     *)
(***************************************************************************)
Next ==
    \E t \in Threads :
        \/ \E pos \in ConcPositions, value \in ConcBrightness : CallIconSet(t, pos, value)
        \/ \E value \in ConcVolumes : CallVolumeSet(t, value)
        \/ vfd_led_generic_set(t)
        \/ vfd_led_volume_set(t)
        \/ vfd_set_icons(t)
        \/ vfd_send_packet(t, 0)

Spec == Init /\ [][Next]_vars

(***************************************************************************)
(* SpecMix: thread 1 uses the text attribute while the other threads call  *)
(* the LED endpoints                                                       *)
(***************************************************************************)
TextUsers == {1}

NextMix ==
    \E t \in Threads :
        \/ \E pos \in MixPositions, value \in ConcBrightness :
                t \notin TextUsers /\ CallIconSet(t, pos, value)
        \/ \E value \in ConcVolumes : t \notin TextUsers /\ CallVolumeSet(t, value)
        \/ \E buf \in ConcTexts : t \in TextUsers /\ CallTextWrite(t, buf)
        \/ t \in TextUsers /\ CallTextRead(t)
        \/ vfd_led_generic_set(t)
        \/ vfd_led_volume_set(t)
        \/ vfd_set_icons(t)
        \/ set_vfd_text_handler(t)
        \/ vfd_reset_cursor(t)
        \/ vfd_set_text(t)
        \/ get_vfd_text_handler(t)
        \/ vfd_send_packet(t, 0)

SpecMix == Init /\ [][NextMix]_vars

(***************************************************************************)
(* SpecLeds: one caller of the 16 LED endpoints, one call at a time        *)
(***************************************************************************)
NextLeds ==
    \/ \E pos \in LedPositions, value \in LedBrightness : CallIconSet(1, pos, value)
    \/ \E value \in LedVolumes : CallVolumeSet(1, value)
    \/ vfd_led_generic_set(1)
    \/ vfd_led_volume_set(1)
    \/ vfd_set_icons(1)
    \/ vfd_send_packet(1, 0)

SpecLeds == Init /\ [][NextLeds]_vars

(***************************************************************************)
(* SpecText: one user of the text attribute, one write or read at a time   *)
(***************************************************************************)
NextText ==
    \/ \E buf \in Texts : CallTextWrite(1, buf)
    \/ CallTextRead(1)
    \/ set_vfd_text_handler(1)
    \/ vfd_reset_cursor(1)
    \/ vfd_set_text(1)
    \/ get_vfd_text_handler(1)
    \/ vfd_send_packet(1, 0)

SpecText == Init /\ [][NextText]_vars

(***************************************************************************)
(* SpecFault: one caller of all endpoints, on a transport that may fail    *)
(***************************************************************************)
NextFault ==
    \/ \E pos \in FewPositions, value \in FewBrightness : CallIconSet(1, pos, value)
    \/ \E value \in FewVolumes : CallVolumeSet(1, value)
    \/ \E buf \in FewTexts : CallTextWrite(1, buf)
    \/ CallTextRead(1)
    \/ vfd_led_generic_set(1)
    \/ vfd_led_volume_set(1)
    \/ vfd_set_icons(1)
    \/ set_vfd_text_handler(1)
    \/ vfd_reset_cursor(1)
    \/ vfd_set_text(1)
    \/ get_vfd_text_handler(1)
    \/ vfd_send_packet(1, MaxFaults)

SpecFault == Init /\ [][NextFault]_vars

(***************************************************************************)
(* SpecRead: thread 1 writes the text attribute while the other threads    *)
(* read it.  The behaviours start with the screen as the probe left it or  *)
(* as an earlier write of "test 123" left it, the histories empty.         *)
(***************************************************************************)
\* the screen after a write of buf: the first 20 bytes, zero filled
ScreenAfter(buf) ==
    [k \in 1..SHUTTLE_VFD_WIDTH |-> IF k <= Len(buf) THEN buf[k] ELSE NUL]

ShownTexts == { <<>>, Test123 }

\* vfd->packet as the last send before left it: the full clear of the probe,
\* or the last packet of a text write, 0x96 and bytes 14..19 of the screen
LastPacket(shown) ==
    IF shown = <<>> THEN ClearPacket(TRUE)
    ELSE <<TextHeader(SHUTTLE_VFD_WIDTH % SHUTTLE_VFD_DATA_SIZE)>>
            \o SubSeq(ScreenAfter(shown), 15, SHUTTLE_VFD_WIDTH) \o <<NUL>>

InitShown ==
    /\ icons_mask = 0
    /\ \E shown \in ShownTexts :
        /\ screen = ScreenAfter(shown)
        /\ packet = LastPacket(shown)
    /\ vfd_mutex = 0
    /\ pc = [t \in Threads |-> "idle"]
    /\ call = [t \in Threads |-> NoCall]
    /\ loc = [t \in Threads |-> NoLoc]
    /\ wire = <<>>
    /\ writer = Zeros(SHUTTLE_VFD_PACKET_SIZE)
    /\ errlog = 0
    /\ hist = <<>>
    /\ dev = "alloc"
    /\ registered = AllEndpoints
    /\ events = <<>>

ReadTexts == { <<104, 105>>, Letters(22) }

NextRead ==
    \E t \in Threads :
        \/ \E buf \in ReadTexts : t \in TextUsers /\ CallTextWrite(t, buf)
        \/ t \notin TextUsers /\ CallTextRead(t)
        \/ set_vfd_text_handler(t)
        \/ vfd_reset_cursor(t)
        \/ vfd_set_text(t)
        \/ get_vfd_text_handler(t)
        \/ vfd_send_packet(t, 0)

SpecRead == InitShown /\ [][NextRead]_vars

(***************************************************************************)
(* SpecGate: two concurrent callers of one icon endpoint on a transport     *)
(* that may fail                                                           *)
(***************************************************************************)
GateThreads == {1, 2}

NextGate ==
    \E t \in GateThreads :
        \/ \E pos \in MixPositions, value \in ConcBrightness : CallIconSet(t, pos, value)
        \/ vfd_led_generic_set(t)
        \/ vfd_set_icons(t)
        \/ vfd_send_packet(t, MaxFaults)

SpecGate == Init /\ [][NextGate]_vars

(***************************************************************************)
(* SpecLife: the life of the interface, seen by one thread: the probe,     *)
(* whose helpers may fail, then calls of the endpoints, the disconnect,    *)
(* and a probe again                                                       *)
(***************************************************************************)
\* before the first probe: no structure, no endpoint
InitDetached ==
    /\ icons_mask = 0
    /\ packet = Zeros(SHUTTLE_VFD_PACKET_SIZE)
    /\ screen = Zeros(SHUTTLE_VFD_WIDTH)
    /\ vfd_mutex = 0
    /\ pc = [t \in Threads |-> "idle"]
    /\ call = [t \in Threads |-> NoCall]
    /\ loc = [t \in Threads |-> NoLoc]
    /\ wire = <<>>
    /\ writer = Zeros(SHUTTLE_VFD_PACKET_SIZE)
    /\ errlog = 0
    /\ hist = <<>>
    /\ dev = "null"
    /\ registered = {}
    /\ events = <<>>

\* bInterfaceNumber of the interface offered to the probe
InterfaceNumbers == {0, SHUTTLE_VFD_INTERFACE}

NextLife ==
    \/ \E ifnum \in InterfaceNumbers : CallProbe(1, ifnum)
    \/ CallDisconnect(1)
    \/ \E pos \in FewPositions, value \in FewBrightness : CallIconSet(1, pos, value)
    \/ \E value \in FewVolumes : CallVolumeSet(1, value)
    \/ \E buf \in FewTexts : CallTextWrite(1, buf)
    \/ CallTextRead(1)
    \/ shuttle_vfd_probe(1, TRUE)
    \/ probe_error(1)
    \/ shuttle_vfd_disconnect(1)
    \/ vfd_led_generic_set(1)
    \/ vfd_led_volume_set(1)
    \/ vfd_set_icons(1)
    \/ set_vfd_text_handler(1)
    \/ vfd_reset_cursor(1)
    \/ vfd_set_text(1)
    \/ get_vfd_text_handler(1)
    \/ vfd_send_packet(1, 0)

SpecLife == InitDetached /\ [][NextLife]_vars

(***************************************************************************)
(* SpecAttach: thread 1 runs the probe, whose helpers succeed, while the   *)
(* other threads call the icon endpoints already registered; the transport *)
(* does not fail                                                           *)
(***************************************************************************)
Probers == {1}

NextAttach ==
    \E t \in Threads :
        \/ t \in Probers /\ CallProbe(t, SHUTTLE_VFD_INTERFACE)
        \/ \E pos \in ConcPositions, value \in ConcBrightness :
                t \notin Probers /\ CallIconSet(t, pos, value)
        \/ shuttle_vfd_probe(t, FALSE)
        \/ vfd_reset_cursor(t)
        \/ vfd_led_generic_set(t)
        \/ vfd_set_icons(t)
        \/ vfd_send_packet(t, 0)

SpecAttach == InitDetached /\ [][NextAttach]_vars

(***************************************************************************)
(* Vocabulary of the properties                                            *)
(***************************************************************************)
\* thread t has run an operation to its return
Done(t) == pc[t] = "idle" /\ call[t].kind # "none"

AllIdle == \A t \in Threads : pc[t] = "idle"

\* the packets operation id handed to the transport, in order
PacketsOf(id) ==
    LET sent == SelectSeq(wire, LAMBDA w : w.op = id)
    IN  [k \in 1..Len(sent) |-> sent[k].pkt]

\* bit i of m
BitOf(m, i) == (m \div (2 ^ i)) % 2

\* a packet as the icons codec forms it: command nibble 7, length 4, four
\* 5-bit data bytes, three zero bytes
WellFormedIcons(p) ==
    /\ p[1] = 7 * 16 + 4
    /\ \A k \in 2..5 : p[k] < 32
    /\ \A k \in 6..8 : p[k] = 0

(***************************************************************************)
(* C1: concurrent set_brightness calls on different icons never mix at the *)
(* packet level: every packet handed to the transport is a fully formed    *)
(* icons packet whose bytes were all written by the operation sending it.  *)
(* Stated as the claim states it; the code builds vfd->packet outside the  *)
(* mutex, and TLC finds a packet sent after another caller's memset.       *)
(***************************************************************************)
DifferentIcons ==
    /\ \A k \in 1..Len(hist) : hist[k].kind = "icon"
    /\ \A j, k \in 1..Len(hist) : j # k => hist[j].pos # hist[k].pos

C1_PacketsNeverMixed ==
    DifferentIcons =>
        \A k \in 1..Len(wire) :
            wire[k].kind = "icon" => ~wire[k].torn /\ WellFormedIcons(wire[k].pkt)

(***************************************************************************)
(* C2: updates of icons_mask by concurrent set_brightness calls on         *)
(* distinct endpoints are atomic: once all have returned, icons_mask is    *)
(* what applying them one after the other, in some order, gives.  Stated   *)
(* as the claim states it; the read-modify-write of icons_mask is outside  *)
(* every lock and TLC finds a lost update.                                 *)
(***************************************************************************)
DistinctEndpoints ==
    /\ \A k \in 1..Len(hist) : hist[k].kind \in {"icon", "volume"}
    /\ \A j, k \in 1..Len(hist) : j # k => hist[j].pos # hist[k].pos

\* one whole call, run alone
AppliedAlone(m, c) ==
    IF c.kind = "icon" THEN
        m - BitOf(m, c.pos) * (2 ^ c.pos) + (IF c.value # 0 THEN 2 ^ c.pos ELSE 0)
    ELSE (m % (2 ^ 15)) + c.value * (2 ^ 15)

RECURSIVE AppliedInOrder(_, _, _)
AppliedInOrder(m, order, k) ==
    IF k > Len(order) THEN m
    ELSE AppliedInOrder(AppliedAlone(m, hist[order[k]]), order, k + 1)

Orders ==
    {f \in [1..Len(hist) -> 1..Len(hist)] : \A j, k \in 1..Len(hist) : j # k => f[j] # f[k]}

C2_NoLostUpdate ==
    (AllIdle /\ DistinctEndpoints) =>
        \E order \in Orders : icons_mask = AppliedInOrder(0, order, 1)

(***************************************************************************)
(* C3: the packets of one text write are contiguous on the transport: no   *)
(* packet of another operation lies between its first and its last.        *)
(* Stated as the claim states it; the mutex is taken per packet, and TLC   *)
(* finds an icons packet between two packets of a text write.              *)
(***************************************************************************)
C3_TextPacketsContiguous ==
    \A i, j, k \in 1..Len(wire) :
        (i < j /\ j < k /\ wire[i].kind = "text" /\ wire[i].op = wire[k].op)
            => wire[j].op = wire[i].op

(***************************************************************************)
(* C4: a text write of any count, run alone, hands the transport exactly   *)
(* four packets: the cursor reset 0x11 with data byte 2, then text packets *)
(* 0x97, 0x97, 0x96 carrying bytes 0-6, 7-13 and 14-19 of the screen, the  *)
(* seventh data byte of the last one being zero.                           *)
(***************************************************************************)
C4_TextWritePackets ==
    (Done(1) /\ call[1].kind = "text") =>
        PacketsOf(call[1].id) =
            << <<17, 2, 0, 0, 0, 0, 0, 0>>,
               <<9 * 16 + 7>> \o SubSeq(screen, 1, 7),
               <<9 * 16 + 7>> \o SubSeq(screen, 8, 14),
               <<9 * 16 + 6>> \o SubSeq(screen, 15, 20) \o <<0>> >>

\* a short write over a full screen has been sent
C4_Witness ==
    /\ Done(1)
    /\ call[1].kind = "text"
    /\ call[1].count < 20
    /\ call[1].pre_screen[14] # 0
    /\ Len(PacketsOf(call[1].id)) = 4

(***************************************************************************)
(* C5: after a text write the screen holds the first min(count, 20)        *)
(* written bytes followed by zero bytes, whatever it held before, and the  *)
(* write returns count.                                                    *)
(***************************************************************************)
C5_TextWriteBuffer ==
    (Done(1) /\ call[1].kind = "text") =>
        /\ screen = [k \in 1..20 |->
                        IF k <= call[1].count THEN call[1].buf[k] ELSE 0]
        /\ loc[1].ret = call[1].count

\* a short write over a longer previous text has returned
C5_Witness ==
    /\ Done(1)
    /\ call[1].kind = "text"
    /\ call[1].count < 19
    /\ call[1].pre_screen[19] # 0
    /\ screen[19] = 0

(***************************************************************************)
(* C6: for every screen content a read returns the screen without its      *)
(* trailing NUL and newline bytes, plus one newline, and the trimmed       *)
(* length plus one.  Stated as the claim states it; on a screen of only    *)
(* NUL and newline bytes the loop runs below index 0 and the result        *)
(* depends on the bytes in front of the buffer.                            *)
(***************************************************************************)
\* the length of s without its trailing NUL and newline bytes
TrimmedLen(s) ==
    LET keep == {k \in 1..Len(s) : s[k] # 0 /\ s[k] # 10}
    IN  IF keep = {} THEN 0 ELSE CHOOSE k \in keep : \A j \in keep : j <= k

C6_ReadTrimmed ==
    (Done(1) /\ call[1].kind = "read") =>
        LET n == TrimmedLen(call[1].pre_screen) IN
        /\ loc[1].ret = n + 1
        /\ SubSeq(loc[1].buf, 1, n + 1) = SubSeq(call[1].pre_screen, 1, n) \o <<10>>

(***************************************************************************)
(* C7, as claimed: a failed send makes the operation's outcome differ from *)
(* its outcome when every send succeeds.                                   *)
(***************************************************************************)
\* what the caller gets when every send succeeds: count from the text
\* write, nothing from the void brightness_set callbacks
SuccessOutcome(c) == IF c.kind = "text" THEN c.count ELSE 0

C7_FailureSurfaced ==
    (Done(1) /\ call[1].kind # "read" /\ loc[1].failed > 0) =>
        loc[1].ret # SuccessOutcome(call[1])

(***************************************************************************)
(* C7, amended: a failed send is logged once by vfd_send_packet and is not *)
(* surfaced to the operation's caller: the operation's outcome is its      *)
(* outcome when every send succeeds.                                       *)
(***************************************************************************)
C7_FailureLoggedNotSurfaced ==
    (Done(1) /\ call[1].kind # "read") =>
        /\ loc[1].ret = SuccessOutcome(call[1])
        /\ errlog = Faults

\* a text write with a failed send has returned
C7_Witness ==
    /\ Done(1)
    /\ call[1].kind = "text"
    /\ loc[1].failed > 0
    /\ errlog > 0

(***************************************************************************)
(* C8: set_brightness on the volume endpoint clamps to 0..12: the level    *)
(* stored in bits 15-18 of icons_mask and the level in the packet's first  *)
(* data byte are at most 12 and no other bit of icons_mask changes.        *)
(* Stated as the claim states it; the code shifts the raw value in.        *)
(***************************************************************************)
C8_VolumeClamped ==
    (Done(1) /\ call[1].kind = "volume") =>
        /\ (icons_mask \div (2 ^ 15)) % 16 <= 12
        /\ PacketsOf(call[1].id)[1][2] <= 12
        /\ icons_mask % (2 ^ 15) = call[1].pre_mask % (2 ^ 15)
        /\ icons_mask \div (2 ^ 19) = call[1].pre_mask \div (2 ^ 19)

(***************************************************************************)
(* C9: set_brightness on a binary icon with any nonzero value sets exactly *)
(* the icon's bit, as value 1 does, and value 0 clears it; no other bit    *)
(* changes and the raw value is not written.                               *)
(***************************************************************************)
C9_BinaryIconClamp ==
    (Done(1) /\ call[1].kind = "icon") =>
        icons_mask = call[1].pre_mask
                        - BitOf(call[1].pre_mask, call[1].pos) * (2 ^ call[1].pos)
                        + (IF call[1].value # 0 THEN 2 ^ call[1].pos ELSE 0)

\* value 15 on an icon that was off, another icon being lit
C9_Witness ==
    /\ Done(1)
    /\ call[1].kind = "icon"
    /\ call[1].value = 15
    /\ call[1].pre_mask # 0
    /\ icons_mask = call[1].pre_mask + 2 ^ call[1].pos

(***************************************************************************)
(* C10: for every icons_mask the icons packet is one packet 0x74 whose     *)
(* data bytes 0..3 are mask bits 15-19, 10-14, 5-9 and 0-4, each below 32, *)
(* the rest zero; for a mask of the single bit pos <= 14 the only bit set  *)
(* is bit pos mod 5 of data byte 3 - pos/5; for mask 0 all are zero.       *)
(***************************************************************************)
C10_IconsPacket ==
    (Done(1) /\ call[1].kind \in {"icon", "volume"}) =>
        LET sent == PacketsOf(call[1].id)
            p == sent[1]
            m == icons_mask
        IN  /\ Len(sent) = 1
            /\ Len(p) = 8
            /\ p[1] = 7 * 16 + 4
            /\ p[2] = (m \div (2 ^ 15)) % 32
            /\ p[3] = (m \div (2 ^ 10)) % 32
            /\ p[4] = (m \div (2 ^ 5)) % 32
            /\ p[5] = m % 32
            /\ \A k \in 2..5 : p[k] < 32
            /\ \A k \in 6..8 : p[k] = 0
            /\ \A pos \in 0..14 :
                    m = 2 ^ pos =>
                        \A k \in 0..3 :
                            p[2 + k] = IF k = 3 - (pos \div 5) THEN 2 ^ (pos % 5) ELSE 0
            /\ m = 0 => \A k \in 2..5 : p[k] = 0

\* the packet of the single icon 14, bit 4 of data byte 1
C10_Witness ==
    /\ Done(1)
    /\ call[1].kind = "icon"
    /\ icons_mask = 2 ^ 14
    /\ PacketsOf(call[1].id) = << <<116, 0, 16, 0, 0, 0, 0, 0>> >>

(***************************************************************************)
(* C11: a read of the text attribute that runs while a text write runs     *)
(* copies the screen as it was before a write or as a write leaves it,     *)
(* never the zero-filled or partly copied state in between, and a read     *)
(* hands the transport nothing.  Stated as the claim states it; neither    *)
(* handler takes a lock around vfd->screen, and TLC finds a read that      *)
(* copies the screen between the memset and the memcpy of a write.         *)
(***************************************************************************)
\* the screens before and after the writes started so far
WrittenScreens ==
    UNION { {hist[k].pre_screen, ScreenAfter(hist[k].buf)} :
                k \in {j \in 1..Len(hist) : hist[j].kind = "text"} }

C11_ReadNotTorn ==
    /\ \A t \in Threads :
            pc[t] = "rd_trim" =>
                \/ loc[t].buf \in WrittenScreens
                \/ loc[t].buf = screen /\ WrittenScreens = {}
    /\ \A k \in 1..Len(wire) : wire[k].kind # "read"

(***************************************************************************)
(* C12: switching the same binary icon on twice in a row, nothing in       *)
(* between, is idempotent on icons_mask: the mask after the second call is *)
(* the mask after the first, the icon's bit set, not toggled; and the two  *)
(* calls hand the transport exactly two packets, byte for byte the same    *)
(* icons packet.                                                           *)
(***************************************************************************)
\* the two operations of the behaviour switched the same icon on
SameIconOnTwice ==
    /\ Len(hist) = 2
    /\ \A k \in 1..2 : hist[k].kind = "icon" /\ hist[k].value # LED_OFF
    /\ hist[1].pos = hist[2].pos

C12_IconOnIdempotent ==
    (Done(1) /\ call[1].id = 2 /\ SameIconOnTwice) =>
        /\ icons_mask = hist[2].pre_mask
        /\ BitOf(icons_mask, hist[2].pos) = 1
        /\ Len(SelectSeq(wire, LAMBDA w : w.kind # "probe")) = 2
        /\ Len(PacketsOf(1)) = 1 /\ Len(PacketsOf(2)) = 1
        /\ PacketsOf(1)[1] = PacketsOf(2)[1]
        /\ WellFormedIcons(PacketsOf(2)[1])

\* icon 7 switched on with 1 and then with 15, both calls returned
C12_Witness ==
    /\ Done(1) /\ call[1].id = 2 /\ SameIconOnTwice
    /\ hist[1].pos = 7 /\ hist[1].value = 1 /\ hist[2].value = 15
    /\ hist[1].pre_mask = 0
    /\ icons_mask = 2 ^ 7
    /\ Len(wire) = 3

(***************************************************************************)
(* C13: on detach all 15 icon endpoints and the volume endpoint are        *)
(* deregistered and the text attribute is removed strictly before the      *)
(* device instance is released (usb_put_dev, kfree): when the release      *)
(* starts no endpoint is registered, no deregistration follows a release   *)
(* step, and each endpoint is deregistered exactly once.                   *)
(***************************************************************************)
\* the lifecycle steps operation id took, in order
EventsOf(id) == SelectSeq(events, LAMBDA e : e.op = id)

\* the endpoints the steps in E deregistered
UnregisteredIn(E) == {E[k].ep : k \in {j \in 1..Len(E) : E[j].ev = "unregister"}}

\* how many times the steps in E took step ev on endpoint ep
Count(E, ev, ep) == Cardinality({k \in 1..Len(E) : E[k].ev = ev /\ E[k].ep = ep})

Releasing(t) ==
    /\ call[t].kind = "disconnect"
    /\ pc[t] \in {"dc_put", "dc_free", "idle"}

C13_DetachOrder ==
    \A t \in Threads :
        call[t].kind = "disconnect" =>
            LET E == EventsOf(call[t].id) IN
            /\ \A i, j \in 1..Len(E) :
                    (i < j /\ E[i].ev \in {"put", "free"}) => E[j].ev # "unregister"
            /\ \A ep \in AllEndpoints : Count(E, "unregister", ep) <= 1
            /\ Releasing(t) =>
                    /\ registered = {}
                    /\ \A ep \in AllEndpoints : Count(E, "unregister", ep) = 1
                    /\ UnregisteredIn(E) = AllEndpoints
            /\ Done(t) =>
                    /\ dev = "freed"
                    /\ Count(E, "put", 0) = 1
                    /\ Count(E, "free", 0) = 1

\* a disconnect after a successful probe has returned
C13_Witness ==
    /\ Done(1)
    /\ call[1].kind = "disconnect"
    /\ hist[1].kind = "probe"
    /\ dev = "freed"
    /\ Len(EventsOf(call[1].id)) = NUM_LEDS + 4

(***************************************************************************)
(* C14: at most one transport write is in progress at any time and the     *)
(* delay after a write completes with the lock held: from the start of a   *)
(* write (usb_control_msg) to the end of the msleep that follows it the    *)
(* writing thread holds vfd_mutex and no other thread is at a write or in  *)
(* its delay, whether the write succeeded or failed.                       *)
(***************************************************************************)
\* thread t is at its transport write, in the delay after it, or past the
\* delay and about to unlock
InWriteOrDelay(t) == pc[t] \in {"sp_usb", "sp_sleep", "sp_unlock"}

C14_OneWriteAtATime ==
    \A t \in Threads :
        InWriteOrDelay(t) =>
            /\ vfd_mutex = t
            /\ \A u \in Threads \ {t} : ~InWriteOrDelay(u)

\* a thread sleeps after a failed write while another waits for the mutex
C14_Witness ==
    \E t, u \in Threads :
        /\ pc[t] = "sp_sleep"
        /\ loc[t].result < 0
        /\ pc[u] = "sp_lock"
        /\ vfd_mutex = t

(***************************************************************************)
(* C15: each set_brightness call hands the transport exactly one packet,   *)
(* and it is an icons packet (command nibble 7, length 4, data bytes of    *)
(* icons_mask), never a text packet or a cursor packet, also when a text   *)
(* write runs concurrently.  Stated as the claim states it; the packet is  *)
(* built in the shared vfd->packet outside the mutex, and TLC finds a      *)
(* set_brightness call whose send carries bytes the text write put there.  *)
(***************************************************************************)
C15_IconCallSendsIconPacket ==
    /\ \A k \in 1..Len(wire) :
            wire[k].kind \in {"icon", "volume"} => WellFormedIcons(wire[k].pkt)
    /\ \A t \in Threads :
            (Done(t) /\ call[t].kind \in {"icon", "volume"}) =>
                Len(PacketsOf(call[t].id)) = 1

(***************************************************************************)
(* C16: a failed transfer is neither retried nor rolled back.  In a        *)
(* behaviour with a failed transfer, an operation that has returned has    *)
(* sent exactly the packets it sends on a working transport (one icons     *)
(* packet; the cursor packet and three text packets, in this order),       *)
(* icons_mask and the screen hold what the operation applied, the mutex is *)
(* free, and this holds for the operation after the failed one as well.    *)
(***************************************************************************)
\* the icons packet of mask m
IconsPacketOf(m) ==
    <<7 * 16 + 4, (m \div (2 ^ 15)) % 32, (m \div (2 ^ 10)) % 32, (m \div (2 ^ 5)) % 32,
      m % 32, 0, 0, 0>>

\* the four packets of a text write that left screen scr
TextPacketsOf(scr) ==
    << <<17, 2, 0, 0, 0, 0, 0, 0>>,
       <<9 * 16 + 7>> \o SubSeq(scr, 1, 7),
       <<9 * 16 + 7>> \o SubSeq(scr, 8, 14),
       <<9 * 16 + 6>> \o SubSeq(scr, 15, 20) \o <<0>> >>

C16_NoRetryNoRollback ==
    (Done(1) /\ Faults > 0) =>
        /\ vfd_mutex = 0
        /\ call[1].kind \in {"icon", "volume"} =>
                /\ icons_mask = AppliedAlone(call[1].pre_mask, call[1])
                /\ PacketsOf(call[1].id) = <<IconsPacketOf(icons_mask)>>
        /\ call[1].kind = "text" =>
                /\ screen = ScreenAfter(call[1].buf)
                /\ PacketsOf(call[1].id) = TextPacketsOf(screen)
        /\ call[1].kind = "read" => PacketsOf(call[1].id) = <<>>

\* the second packet of a text write failed, the write sent all four and
\* returned, and the icon call after it has sent its packet and returned
C16_Witness ==
    /\ Done(1)
    /\ call[1].id = 2
    /\ call[1].kind = "icon"
    /\ hist[1].kind = "text"
    /\ Len(PacketsOf(1)) = 4
    /\ \E k \in 1..Len(wire) :
            /\ wire[k].op = 1
            /\ wire[k].res < 0
            /\ wire[k].pkt = PacketsOf(1)[2]
    /\ screen = ScreenAfter(hist[1].buf)
    /\ icons_mask = 2 ^ 14
    /\ PacketsOf(2) = <<IconsPacketOf(2 ^ 14)>>
    /\ wire[Len(wire)].res = SHUTTLE_VFD_PACKET_SIZE

(***************************************************************************)
(* C17: the icon bits and the volume field of icons_mask are independent:  *)
(* set_brightness on the icon at pos changes at most bit pos and leaves    *)
(* every other bit, the volume bits included, as it was; set_brightness    *)
(* on the volume with a level in 0..12 leaves bits 0-14 as they were and   *)
(* makes the volume field the level (nothing when the level is 0),         *)
(* whatever icon bits are set.                                             *)
(***************************************************************************)
\* m without bit i
WithoutBit(m, i) == m - BitOf(m, i) * (2 ^ i)

C17_FieldsIndependent ==
    /\ (Done(1) /\ call[1].kind = "icon") =>
            /\ WithoutBit(icons_mask, call[1].pos) = WithoutBit(call[1].pre_mask, call[1].pos)
            /\ icons_mask \div (2 ^ 15) = call[1].pre_mask \div (2 ^ 15)
    /\ (Done(1) /\ call[1].kind = "volume" /\ call[1].value \in 0..12) =>
            /\ icons_mask % (2 ^ 15) = call[1].pre_mask % (2 ^ 15)
            /\ icons_mask \div (2 ^ 15) = call[1].value

\* the volume set to 12 while icon 14 is lit
C17_Witness ==
    /\ Done(1)
    /\ call[1].kind = "volume"
    /\ call[1].value = 12
    /\ call[1].pre_mask = 2 ^ 14
    /\ icons_mask = 2 ^ 14 + 12 * (2 ^ 15)

(***************************************************************************)
(* C18: a read never examines a position in front of its buffer: the       *)
(* trimming loop stops at index 0, and on a screen holding only NUL and    *)
(* newline bytes (the all-zero screen after the probe, the screen after a  *)
(* write of one newline) the read returns exactly one newline.  Stated as  *)
(* the claim states it; the loop tests buf[sz-1] with no test of sz, and   *)
(* on such a screen it tests buf[-1].                                      *)
(***************************************************************************)
\* The loop ends at the first byte examined that is neither NUL nor newline,
\* which is buf[sz - 1] for the final sz: the lowest C index it examined.
LowestExamined(t) == loc[t].sz - 1

OnlyTrimmed(s) == \A k \in 1..Len(s) : IsTrimmed(s[k])

C18_ReadInBounds ==
    \A t \in Threads :
        (Done(t) /\ call[t].kind = "read") =>
            /\ LowestExamined(t) >= 0
            /\ OnlyTrimmed(SubSeq(loc[t].buf, 1, SHUTTLE_VFD_WIDTH)) =>
                    /\ loc[t].ret = 1
                    /\ loc[t].buf[1] = NEWLINE

(***************************************************************************)
(* C19, as claimed: when the probe fails at any step (interface number     *)
(* not 1, kzalloc, registration of the i-th icon, of the volume, creation  *)
(* of the text attribute), exactly the endpoints registered so far are     *)
(* deregistered, once each, the device instance is released once, no       *)
(* packet is sent and the probe returns an error.                          *)
(***************************************************************************)
\* the endpoints the steps in E registered
RegisteredIn(E) == {E[k].ep : k \in {j \in 1..Len(E) : E[j].ev = "register"}}

\* thread t's probe has returned without having created the text attribute,
\* the last helper that can fail
FailedProbe(t) ==
    /\ Done(t)
    /\ call[t].kind = "probe"
    /\ TextEndpoint \notin RegisteredIn(EventsOf(call[t].id))

\* the unwinding of a failed probe, but for the release
Unwound(t) ==
    LET E == EventsOf(call[t].id) IN
    /\ UnregisteredIn(E) = RegisteredIn(E)
    /\ \A ep \in AllEndpoints :
            Count(E, "unregister", ep) = Count(E, "register", ep)
    /\ \A ep \in AllEndpoints : Count(E, "register", ep) <= 1
    /\ registered = {}
    /\ dev # "alloc"
    /\ PacketsOf(call[t].id) = <<>>
    /\ loc[t].ret < 0

C19_FailedAttachReleasedOnce ==
    \A t \in Threads :
        FailedProbe(t) =>
            /\ Unwound(t)
            /\ Count(EventsOf(call[t].id), "free", 0) = 1

(***************************************************************************)
(* C19, amended: as above, except that the device instance is released     *)
(* exactly once when it was allocated, and is not released when the        *)
(* failure precedes or is the allocation (interface number not 1, kzalloc  *)
(* failure): then nothing was allocated and nothing is released.           *)
(***************************************************************************)
C19_FailedAttachUnwound ==
    \A t \in Threads :
        FailedProbe(t) =>
            LET E == EventsOf(call[t].id) IN
            /\ Unwound(t)
            /\ Count(E, "alloc", 0) <= 1
            /\ Count(E, "free", 0) = Count(E, "alloc", 0)
            /\ Count(E, "put", 0) = Count(E, "get", 0)
            /\ \A i, j \in 1..Len(E) :
                    (i < j /\ E[i].ev \in {"put", "free"}) => E[j].ev # "unregister"

\* the creation of the text attribute failed: the volume and the 15 icons
\* were deregistered and the structure freed
C19_Witness ==
    /\ FailedProbe(1)
    /\ RegisteredIn(EventsOf(call[1].id)) = IconEndpoints \cup {VolumeEndpoint}
    /\ UnregisteredIn(EventsOf(call[1].id)) = IconEndpoints \cup {VolumeEndpoint}
    /\ dev = "freed"
    /\ loc[1].ret = -ENOMEM

(***************************************************************************)
(* C20: on a transport that does not fail, whenever the probe has          *)
(* succeeded and no operation is in progress, the icons the device shows,  *)
(* given by the last full clear or icons packet it received, are           *)
(* icons_mask; also when a set_brightness call arrives during the probe,   *)
(* after the endpoints are registered and before the full clear is sent.   *)
(* Stated as the claim states it; the probe registers the endpoints before *)
(* it sends the full clear, and TLC finds a set_brightness call whose      *)
(* icon the full clear erases while its bit stays in icons_mask.           *)
(***************************************************************************)
IsFullClear(p) == p[1] = 16 + 1 /\ p[2] = 1

IsIconsPacket(p) == p[1] = 7 * 16 + 4

\* what the device shows after the packets in wire: nothing after a full
\* clear, the 20 bits of the data bytes after an icons packet
DeviceIcons ==
    LET K == {k \in 1..Len(wire) : IsFullClear(wire[k].pkt) \/ IsIconsPacket(wire[k].pkt)}
    IN  IF K = {} THEN 0
        ELSE LET p == wire[CHOOSE k \in K : \A j \in K : j <= k].pkt
             IN  IF IsFullClear(p) THEN 0
                 ELSE p[2] * (2 ^ 15) + p[3] * (2 ^ 10) + p[4] * (2 ^ 5) + p[5]

Attached == dev = "alloc" /\ registered = AllEndpoints

C20_DeviceShowsMask ==
    (AllIdle /\ Attached /\ \A k \in 1..Len(wire) : wire[k].res >= 0) =>
        DeviceIcons = icons_mask

=============================================================================
